---- MODULE Spec2Model ----
(***************************************************************************)
(* Model of examples/ssl_publish.cpp: the main thread of the sample        *)
(* (file checks, option building, connect / publish / disconnect and the   *)
(* waits on their tokens, the catch block) together with the MQTT client   *)
(* library's network thread, which resolves the tokens and dispatches the  *)
(* registered callbacks.                                                    *)
(***************************************************************************)
EXTENDS Integers, Sequences, FiniteSets, TLC

VARIABLES
    argc,           \* number of command line words (program name included)
    trustPresent,   \* TRUST_STORE can be opened
    keyPresent,     \* KEY_STORE can be opened
    pc,             \* position of the main thread
    serverURI,      \* main's local serverURI
    clientID,       \* main's local clientID
    cbRegistered,   \* client.set_callback(cb) has run
    connopts,       \* main's local connopts: <<>> until finalize(), then <<options>>
    calls,          \* names of the client operations main has invoked, in order
    connArgs,       \* the options handed to each client.connect
    pubArgs,        \* the message handed to each client.publish
    connTok,        \* state of the connect token
    pubTok,         \* state of the delivery token
    discTok,        \* state of the disconnect token
    pubMsgId,       \* message id of the delivery token (0: none)
    connState,      \* the session's state inside the library
    elapsed,        \* seconds spent so far in wait_for(TIMEOUT)
    pubWaitRet,     \* how the wait on the delivery token ended
    caught,         \* the catch block has run
    exitCode,       \* main's return value (-1: still running)
    cbQueue,        \* callbacks the library thread has still to dispatch
    cbLog           \* lines written by the callback object

mainVars == <<argc, trustPresent, keyPresent, pc, serverURI, clientID, cbRegistered,
              connopts, calls, connArgs, pubArgs, elapsed, pubWaitRet, caught, exitCode>>
libVars  == <<connTok, pubTok, discTok, pubMsgId, connState, cbQueue>>
vars     == <<argc, trustPresent, keyPresent, pc, serverURI, clientID, cbRegistered,
              connopts, calls, connArgs, pubArgs, connTok, pubTok, discTok, pubMsgId,
              connState, elapsed, pubWaitRet, caught, exitCode, cbQueue, cbLog>>

----------------------------------------------------------------------------
(* Program constants *)

DFLT_SERVER_URI == "mqtts://localhost:18884"
DFLT_CLIENT_ID  == "ssl_publish_cpp"
KEY_STORE       == "client.pem"
TRUST_STORE     == "test-root-ca.crt"
LWT_TOPIC       == "events/disconnect"
LWT_PAYLOAD     == "Last will and testament."
QOS             == 1
TIMEOUT         == 10

(* Bounds of the model *)

MaxMsgId == 2

MsgIds == 1..MaxMsgId
Argv1  == "mqtts://broker:8883"
Argv2  == "other_client"
Causes == {"", "reset by peer"}

----------------------------------------------------------------------------
(* Values *)

Message(topic, payload, qos, retained) ==
    [topic |-> topic, payload |-> payload, qos |-> qos, retained |-> retained]

sslopts == [trust_store |-> TRUST_STORE, key_store |-> KEY_STORE]

willmsg_NotRetained == Message(LWT_TOPIC, LWT_PAYLOAD, QOS, FALSE)

willmsg == Message(LWT_TOPIC, LWT_PAYLOAD, QOS, TRUE)

msg_Retained == Message("hello", "Hello secure C++ world!", QOS, TRUE)

msg == Message("hello", "Hello secure C++ world!", QOS, FALSE)

BuiltOptions ==
    [user_name |-> "testuser", password |-> "testpassword",
     will |-> willmsg, ssl |-> sslopts]

NumCalls(op) == Cardinality({i \in DOMAIN calls : calls[i] = op})

----------------------------------------------------------------------------
Init ==
    /\ argc \in 1..3
    /\ trustPresent \in BOOLEAN
    /\ keyPresent \in BOOLEAN
    /\ pc = "start"
    /\ serverURI = ""
    /\ clientID = ""
    /\ cbRegistered = FALSE
    /\ connopts = <<>>
    /\ calls = <<>>
    /\ connArgs = <<>>
    /\ pubArgs = <<>>
    /\ connTok = "none"
    /\ pubTok = "none"
    /\ discTok = "none"
    /\ pubMsgId = 0
    /\ connState = "Disconnected"
    /\ elapsed = 0
    /\ pubWaitRet = "none"
    /\ caught = FALSE
    /\ exitCode = -1
    /\ cbQueue = <<>>
    /\ cbLog = <<>>

----------------------------------------------------------------------------
(* Completion tokens: what a wait on a token in state tok does *)

\* token::wait(): blocks while the token is pending, throws if it failed
wait(tok) ==
    CASE tok = "ok"     -> "returns"
      [] tok = "failed" -> "throws"
      [] OTHER          -> "blocks"

\* token::wait_for(t): as wait(), but returns false once t has gone by
wait_for(tok, waited, t) ==
    CASE tok = "ok"     -> "true"
      [] tok = "failed" -> "throws"
      [] waited >= t    -> "false"
      [] OTHER          -> "blocks"

----------------------------------------------------------------------------
(* The main thread *)

ParseArgs ==
    /\ pc = "start"
    /\ serverURI' = IF argc > 1 THEN Argv1 ELSE DFLT_SERVER_URI
    /\ clientID' = IF argc > 2 THEN Argv2 ELSE DFLT_CLIENT_ID
    /\ pc' = "chk_trust"
    /\ UNCHANGED <<argc, trustPresent, keyPresent, cbRegistered, connopts, calls,
                   connArgs, pubArgs, elapsed, pubWaitRet, caught, exitCode>>
    /\ UNCHANGED libVars
    /\ UNCHANGED cbLog

CheckTrustStore ==
    /\ pc = "chk_trust"
    /\ IF ~trustPresent
         THEN pc' = "done" /\ exitCode' = 1
         ELSE pc' = "chk_key" /\ exitCode' = exitCode
    /\ UNCHANGED <<argc, trustPresent, keyPresent, serverURI, clientID, cbRegistered,
                   connopts, calls, connArgs, pubArgs, elapsed, pubWaitRet, caught>>
    /\ UNCHANGED libVars
    /\ UNCHANGED cbLog

CheckKeyStore_Skipped ==
    /\ pc = "chk_key"
    /\ pc' = "init_client"
    /\ UNCHANGED <<argc, trustPresent, keyPresent, serverURI, clientID, cbRegistered,
                   connopts, calls, connArgs, pubArgs, elapsed, pubWaitRet, caught,
                   exitCode>>
    /\ UNCHANGED libVars
    /\ UNCHANGED cbLog

CheckKeyStore ==
    /\ pc = "chk_key"
    /\ IF ~keyPresent
         THEN pc' = "done" /\ exitCode' = 1
         ELSE pc' = "init_client" /\ exitCode' = exitCode
    /\ UNCHANGED <<argc, trustPresent, keyPresent, serverURI, clientID, cbRegistered,
                   connopts, calls, connArgs, pubArgs, elapsed, pubWaitRet, caught>>
    /\ UNCHANGED libVars
    /\ UNCHANGED cbLog

InitClient ==
    /\ pc = "init_client"
    /\ cbRegistered' = TRUE
    /\ pc' = "build_opts"
    /\ UNCHANGED <<argc, trustPresent, keyPresent, serverURI, clientID, connopts, calls,
                   connArgs, pubArgs, elapsed, pubWaitRet, caught, exitCode>>
    /\ UNCHANGED libVars
    /\ UNCHANGED cbLog

BuildOptions ==
    /\ pc = "build_opts"
    /\ connopts' = <<BuiltOptions>>
    /\ pc' = "conn_call"
    /\ UNCHANGED <<argc, trustPresent, keyPresent, serverURI, clientID, cbRegistered,
                   calls, connArgs, pubArgs, elapsed, pubWaitRet, caught, exitCode>>
    /\ UNCHANGED libVars
    /\ UNCHANGED cbLog

\* client.connect(connopts): the library either throws or hands back a pending token
ConnectCall ==
    /\ pc = "conn_call"
    /\ calls' = Append(calls, "connect")
    /\ connArgs' = Append(connArgs, connopts[1])
    /\ \E throws \in BOOLEAN :
         IF throws
           THEN pc' = "catch" /\ UNCHANGED <<connTok, connState>>
           ELSE pc' = "conn_wait" /\ connTok' = "pending" /\ connState' = "Connecting"
    /\ UNCHANGED <<argc, trustPresent, keyPresent, serverURI, clientID, cbRegistered,
                   connopts, pubArgs, elapsed, pubWaitRet, caught, exitCode>>
    /\ UNCHANGED <<pubTok, discTok, pubMsgId, cbQueue>>
    /\ UNCHANGED cbLog

ConnWait_NoWait ==
    /\ pc = "conn_wait"
    /\ pc' = IF wait(connTok) = "throws" THEN "catch" ELSE "pub_call"
    /\ UNCHANGED <<argc, trustPresent, keyPresent, serverURI, clientID, cbRegistered,
                   connopts, calls, connArgs, pubArgs, elapsed, pubWaitRet, caught,
                   exitCode>>
    /\ UNCHANGED libVars
    /\ UNCHANGED cbLog

ConnWait_IgnoreFailure ==
    /\ pc = "conn_wait"
    /\ wait(connTok) # "blocks"
    /\ pc' = "pub_call"
    /\ UNCHANGED <<argc, trustPresent, keyPresent, serverURI, clientID, cbRegistered,
                   connopts, calls, connArgs, pubArgs, elapsed, pubWaitRet, caught,
                   exitCode>>
    /\ UNCHANGED libVars
    /\ UNCHANGED cbLog

\* conntok->wait()
ConnWait ==
    /\ pc = "conn_wait"
    /\ wait(connTok) # "blocks"
    /\ pc' = IF wait(connTok) = "returns" THEN "pub_call" ELSE "catch"
    /\ UNCHANGED <<argc, trustPresent, keyPresent, serverURI, clientID, cbRegistered,
                   connopts, calls, connArgs, pubArgs, elapsed, pubWaitRet, caught,
                   exitCode>>
    /\ UNCHANGED libVars
    /\ UNCHANGED cbLog

\* client.publish(msg): throws when the session is not connected
PublishCall ==
    /\ pc = "pub_call"
    /\ calls' = Append(calls, "publish")
    /\ pubArgs' = Append(pubArgs, msg)
    /\ elapsed' = 0
    /\ IF connState = "Connected"
         THEN /\ pc' = "pub_wait"
              /\ pubTok' = "pending"
              /\ \E id \in MsgIds : pubMsgId' = id
              /\ pubWaitRet' = pubWaitRet
         ELSE /\ pc' = "catch"
              /\ pubWaitRet' = "threw"
              /\ UNCHANGED <<pubTok, pubMsgId>>
    /\ UNCHANGED <<argc, trustPresent, keyPresent, serverURI, clientID, cbRegistered,
                   connopts, connArgs, caught, exitCode>>
    /\ UNCHANGED <<connTok, discTok, connState, cbQueue>>
    /\ UNCHANGED cbLog

\* a second of the bounded wait goes by
Tick ==
    /\ pc = "pub_wait"
    /\ elapsed < TIMEOUT
    /\ elapsed' = elapsed + 1
    /\ UNCHANGED <<argc, trustPresent, keyPresent, pc, serverURI, clientID, cbRegistered,
                   connopts, calls, connArgs, pubArgs, pubWaitRet, caught, exitCode>>
    /\ UNCHANGED libVars
    /\ UNCHANGED cbLog

PubWait_TimeoutThrows ==
    /\ pc = "pub_wait"
    /\ LET r == wait_for(pubTok, elapsed, TIMEOUT) IN
         /\ r # "blocks"
         /\ pubWaitRet' = CASE r = "true"  -> "acked"
                             [] r = "false" -> "timeout"
                             [] OTHER       -> "threw"
         /\ pc' = CASE r = "true"  -> "disc_call"
                     [] r = "false" -> "catch"
                     [] OTHER       -> "catch"
    /\ UNCHANGED <<argc, trustPresent, keyPresent, serverURI, clientID, cbRegistered,
                   connopts, calls, connArgs, pubArgs, elapsed, caught, exitCode>>
    /\ UNCHANGED libVars
    /\ UNCHANGED cbLog

PubWait_Unbounded ==
    /\ pc = "pub_wait"
    /\ LET r == IF wait(pubTok) = "returns" THEN "true" ELSE wait(pubTok) IN
         /\ r # "blocks"
         /\ pubWaitRet' = CASE r = "true"  -> "acked"
                             [] r = "false" -> "timeout"
                             [] OTHER       -> "threw"
         /\ pc' = CASE r = "true"  -> "disc_call"
                     [] r = "false" -> "disc_call"
                     [] OTHER       -> "catch"
    /\ UNCHANGED <<argc, trustPresent, keyPresent, serverURI, clientID, cbRegistered,
                   connopts, calls, connArgs, pubArgs, elapsed, caught, exitCode>>
    /\ UNCHANGED libVars
    /\ UNCHANGED cbLog

PubWait_IgnoreFailure ==
    /\ pc = "pub_wait"
    /\ LET r == wait_for(pubTok, elapsed, TIMEOUT) IN
         /\ r # "blocks"
         /\ pubWaitRet' = CASE r = "true"  -> "acked"
                             [] r = "false" -> "timeout"
                             [] OTHER       -> "threw"
         /\ pc' = CASE r = "true"  -> "disc_call"
                     [] r = "false" -> "disc_call"
                     [] OTHER       -> "disc_call"
    /\ UNCHANGED <<argc, trustPresent, keyPresent, serverURI, clientID, cbRegistered,
                   connopts, calls, connArgs, pubArgs, elapsed, caught, exitCode>>
    /\ UNCHANGED libVars
    /\ UNCHANGED cbLog

\* ->wait_for(TIMEOUT): the returned bool is discarded
PubWait ==
    /\ pc = "pub_wait"
    /\ LET r == wait_for(pubTok, elapsed, TIMEOUT) IN
         /\ r # "blocks"
         /\ pubWaitRet' = CASE r = "true"  -> "acked"
                             [] r = "false" -> "timeout"
                             [] OTHER       -> "threw"
         /\ pc' = CASE r = "true"  -> "disc_call"
                     [] r = "false" -> "disc_call"
                     [] OTHER       -> "catch"
    /\ UNCHANGED <<argc, trustPresent, keyPresent, serverURI, clientID, cbRegistered,
                   connopts, calls, connArgs, pubArgs, elapsed, caught, exitCode>>
    /\ UNCHANGED libVars
    /\ UNCHANGED cbLog

\* client.disconnect(): throws when the session is not connected
DisconnectCall ==
    /\ pc = "disc_call"
    /\ calls' = Append(calls, "disconnect")
    /\ IF connState = "Connected"
         THEN pc' = "disc_wait" /\ discTok' = "pending" /\ connState' = "Disconnecting"
         ELSE pc' = "catch" /\ UNCHANGED <<discTok, connState>>
    /\ UNCHANGED <<argc, trustPresent, keyPresent, serverURI, clientID, cbRegistered,
                   connopts, connArgs, pubArgs, elapsed, pubWaitRet, caught, exitCode>>
    /\ UNCHANGED <<connTok, pubTok, pubMsgId, cbQueue>>
    /\ UNCHANGED cbLog

\* ->wait() on the disconnect token, then return 0
DiscWait ==
    /\ pc = "disc_wait"
    /\ wait(discTok) # "blocks"
    /\ IF wait(discTok) = "returns"
         THEN pc' = "done" /\ exitCode' = 0
         ELSE pc' = "catch" /\ exitCode' = exitCode
    /\ UNCHANGED <<argc, trustPresent, keyPresent, serverURI, clientID, cbRegistered,
                   connopts, calls, connArgs, pubArgs, elapsed, pubWaitRet, caught>>
    /\ UNCHANGED libVars
    /\ UNCHANGED cbLog

Catch_ReturnsZero ==
    /\ pc = "catch"
    /\ caught' = TRUE
    /\ exitCode' = 0
    /\ pc' = "done"
    /\ UNCHANGED <<argc, trustPresent, keyPresent, serverURI, clientID, cbRegistered,
                   connopts, calls, connArgs, pubArgs, elapsed, pubWaitRet>>
    /\ UNCHANGED libVars
    /\ UNCHANGED cbLog

\* catch (const mqtt::exception&): print and return 1
Catch ==
    /\ pc = "catch"
    /\ caught' = TRUE
    /\ exitCode' = 1
    /\ pc' = "done"
    /\ UNCHANGED <<argc, trustPresent, keyPresent, serverURI, clientID, cbRegistered,
                   connopts, calls, connArgs, pubArgs, elapsed, pubWaitRet>>
    /\ UNCHANGED libVars
    /\ UNCHANGED cbLog

MainStep ==
    \/ ParseArgs
    \/ CheckTrustStore
    \/ CheckKeyStore
    \/ InitClient
    \/ BuildOptions
    \/ ConnectCall
    \/ ConnWait
    \/ PublishCall
    \/ PubWait
    \/ DisconnectCall
    \/ DiscWait
    \/ Catch

----------------------------------------------------------------------------
(* The callback object, run on the library's thread *)

LostLines(cause) ==
    IF cause # ""
      THEN <<[text |-> "Connection lost", cause |-> "", id |-> 0],
             [text |-> "cause", cause |-> cause, id |-> 0]>>
      ELSE <<[text |-> "Connection lost", cause |-> "", id |-> 0]>>

connection_lost_Aborts ==
    /\ pc # "done"
    /\ cbQueue # <<>>
    /\ Head(cbQueue).type = "lost"
    /\ cbLog' = cbLog \o LostLines(Head(cbQueue).cause)
    /\ cbQueue' = Tail(cbQueue)
    /\ pc' = "catch"
    /\ UNCHANGED <<argc, trustPresent, keyPresent, serverURI, clientID, cbRegistered,
                   connopts, calls, connArgs, pubArgs, elapsed, pubWaitRet, caught,
                   exitCode>>
    /\ UNCHANGED <<connTok, pubTok, discTok, pubMsgId, connState>>

connection_lost ==
    /\ pc # "done"
    /\ cbQueue # <<>>
    /\ Head(cbQueue).type = "lost"
    /\ cbLog' = cbLog \o LostLines(Head(cbQueue).cause)
    /\ cbQueue' = Tail(cbQueue)
    /\ UNCHANGED mainVars
    /\ UNCHANGED <<connTok, pubTok, discTok, pubMsgId, connState>>

delivery_complete ==
    /\ pc # "done"
    /\ cbQueue # <<>>
    /\ Head(cbQueue).type = "delivered"
    /\ cbLog' = Append(cbLog, [text |-> "Delivery complete for token", cause |-> "",
                               id |-> IF Head(cbQueue).hasTok
                                        THEN Head(cbQueue).id ELSE -1])
    /\ cbQueue' = Tail(cbQueue)
    /\ UNCHANGED mainVars
    /\ UNCHANGED <<connTok, pubTok, discTok, pubMsgId, connState>>

----------------------------------------------------------------------------
(* The library's network thread *)

Notify(ev) == IF cbRegistered THEN Append(cbQueue, ev) ELSE cbQueue

ConnResolve ==
    /\ pc # "done"
    /\ connTok = "pending"
    /\ \E ok \in BOOLEAN :
         IF ok THEN connTok' = "ok" /\ connState' = "Connected"
               ELSE connTok' = "failed" /\ connState' = "Disconnected"
    /\ UNCHANGED mainVars
    /\ UNCHANGED <<pubTok, discTok, pubMsgId, cbQueue>>
    /\ UNCHANGED cbLog

NetworkFailure ==
    /\ pc # "done"
    /\ connState = "Connected"
    /\ connState' = "Disconnected"
    /\ \E cause \in Causes :
         cbQueue' = Notify([type |-> "lost", cause |-> cause, hasTok |-> FALSE, id |-> 0])
    /\ UNCHANGED mainVars
    /\ UNCHANGED <<connTok, pubTok, discTok, pubMsgId>>
    /\ UNCHANGED cbLog

PubAck ==
    /\ pc # "done"
    /\ pubTok = "pending"
    /\ connState \in {"Connected", "Disconnecting"}
    /\ pubTok' = "ok"
    /\ \E hasTok \in BOOLEAN :
         cbQueue' = Notify([type |-> "delivered", cause |-> "", hasTok |-> hasTok,
                            id |-> pubMsgId])
    /\ UNCHANGED mainVars
    /\ UNCHANGED <<connTok, discTok, pubMsgId, connState>>
    /\ UNCHANGED cbLog

PubFail ==
    /\ pc # "done"
    /\ pubTok = "pending"
    /\ pubTok' = "failed"
    /\ UNCHANGED mainVars
    /\ UNCHANGED <<connTok, discTok, pubMsgId, connState, cbQueue>>
    /\ UNCHANGED cbLog

DiscResolve ==
    /\ pc # "done"
    /\ discTok = "pending"
    /\ connState' = "Disconnected"
    /\ \E ok \in BOOLEAN : discTok' = IF ok THEN "ok" ELSE "failed"
    /\ UNCHANGED mainVars
    /\ UNCHANGED <<connTok, pubTok, pubMsgId, cbQueue>>
    /\ UNCHANGED cbLog

----------------------------------------------------------------------------
Next ==
    \/ ParseArgs
    \/ CheckTrustStore
    \/ CheckKeyStore
    \/ InitClient
    \/ BuildOptions
    \/ ConnectCall
    \/ ConnWait
    \/ PublishCall
    \/ Tick
    \/ PubWait
    \/ DisconnectCall
    \/ DiscWait
    \/ Catch
    \/ connection_lost
    \/ delivery_complete
    \/ ConnResolve
    \/ NetworkFailure
    \/ PubAck
    \/ PubFail
    \/ DiscResolve

Spec == Init /\ [][Next]_vars

\* The main thread keeps running, time goes by, and the library resolves
\* every connect token and every disconnect token.
LiveSpec ==
    /\ Init
    /\ [][Next]_vars
    /\ WF_vars(MainStep)
    /\ WF_vars(Tick)
    /\ WF_vars(ConnResolve)
    /\ WF_vars(DiscResolve)

TypeOK ==
    /\ argc \in 1..3
    /\ pc \in {"start", "chk_trust", "chk_key", "init_client", "build_opts", "conn_call",
               "conn_wait", "pub_call", "pub_wait", "disc_call", "disc_wait", "catch",
               "done"}
    /\ connTok \in {"none", "pending", "ok", "failed"}
    /\ pubTok \in {"none", "pending", "ok", "failed"}
    /\ discTok \in {"none", "pending", "ok", "failed"}
    /\ connState \in {"Disconnected", "Connecting", "Connected", "Disconnecting"}
    /\ elapsed \in 0..TIMEOUT
    /\ pubWaitRet \in {"none", "acked", "timeout", "threw"}
    /\ exitCode \in {-1, 0, 1}
    /\ pubMsgId \in 0..MaxMsgId

----------------------------------------------------------------------------
(* Properties *)

AfterPublish == {"pub_wait", "disc_call", "disc_wait", "catch", "done"}

\* C1: when the trust store is absent, or it is present and the key store is
\* absent, main exits with code 1 and never invokes connect, publish or
\* disconnect: the run goes no further than the two file checks.
MissingStoreIsFatal ==
    (~trustPresent \/ ~keyPresent) =>
        /\ calls = <<>>
        /\ connArgs = <<>>
        /\ pc \in {"start", "chk_trust", "chk_key", "done"}
        /\ pc = "done" => exitCode = 1 /\ ~caught

MissingKeyStoreExit ==
    trustPresent /\ ~keyPresent /\ pc = "done" /\ exitCode = 1

\* C2: publish is never invoked more than once, and in a run where both files
\* are present and the wait on the connect token returned normally it is
\* invoked exactly once, with topic "hello", payload "Hello secure C++
\* world!", QoS 1 and retain false.
PublishExactlyOnce ==
    /\ NumCalls("publish") <= 1
    /\ Len(pubArgs) = NumCalls("publish")
    /\ (trustPresent /\ keyPresent /\ connTok = "ok" /\ pc \in AfterPublish) =>
          /\ NumCalls("publish") = 1
          /\ pubArgs = <<[topic |-> "hello", payload |-> "Hello secure C++ world!",
                          qos |-> 1, retained |-> FALSE]>>

PublishedAfterConnect ==
    connTok = "ok" /\ pc = "done" /\ NumCalls("publish") = 1

\* C3: when connect fails (client.connect throws, so no token exists, or the
\* connect token is resolved as failed and the wait on it throws), publish
\* and disconnect are never invoked and main exits with code 1.
ConnectFailureIsFatal ==
    (NumCalls("connect") > 0 /\ connTok \in {"none", "failed"}) =>
        /\ NumCalls("publish") = 0
        /\ NumCalls("disconnect") = 0
        /\ pc \in {"conn_wait", "catch", "done"}
        /\ pc = "done" => exitCode = 1

ConnectWaitThrewExit ==
    connTok = "failed" /\ pc = "done" /\ exitCode = 1 /\ calls = <<"connect">>

\* C4: disconnect is invoked at most once, only after publish and only after
\* the bounded wait on the delivery token has returned; once that wait has
\* returned, acknowledged or timed out, disconnect is invoked exactly once.
DisconnectOnceAfterPublishWait ==
    /\ NumCalls("disconnect") <= 1
    /\ NumCalls("disconnect") = 1 =>
          /\ calls = <<"connect", "publish", "disconnect">>
          /\ pubWaitRet \in {"acked", "timeout"}
    /\ (pubWaitRet \in {"acked", "timeout"} /\ pc \in {"disc_wait", "catch", "done"}) =>
          NumCalls("disconnect") = 1
    /\ pubWaitRet = "timeout" => elapsed = TIMEOUT

DisconnectAfterTimeout ==
    pubWaitRet = "timeout" /\ pubTok = "pending" /\ NumCalls("disconnect") = 1

\* C5 as stated: a terminated run has exit code 0 or 1, the code is 0 exactly
\* when connect succeeded, the publish was delivered and disconnect
\* completed, and it is 1 when a store file is missing or an exception was
\* caught.
ExitZeroIffDelivered ==
    pc = "done" =>
        /\ exitCode \in {0, 1}
        /\ exitCode = 0 <=> (connTok = "ok" /\ pubTok = "ok" /\ discTok = "ok")
        /\ (~trustPresent \/ ~keyPresent \/ caught) => exitCode = 1

\* C5 as amended: a terminated run has exit code 0 or 1; the code is 0 exactly
\* when connect succeeded, the wait on the delivery token returned without
\* throwing (acknowledged or timed out) and disconnect completed; it is 1
\* exactly when a store file is missing or an exception was caught.
ExitZeroIffNoException ==
    pc = "done" =>
        /\ exitCode \in {0, 1}
        /\ exitCode = 0 <=> (/\ connTok = "ok"
                             /\ pubWaitRet \in {"acked", "timeout"}
                             /\ discTok = "ok")
        /\ exitCode = 1 <=> (~trustPresent \/ ~keyPresent \/ caught)

ExitZeroUndelivered ==
    pc = "done" /\ exitCode = 0 /\ pubWaitRet = "timeout" /\ pubTok = "pending"

\* C6: the options handed to client.connect carry the last will with topic
\* "events/disconnect", payload "Last will and testament.", QoS 1 and retain
\* true, connect is handed them once, and main's options still equal the
\* ones it handed over.
LastWillRegistered ==
    /\ Len(connArgs) = NumCalls("connect")
    /\ Len(connArgs) <= 1
    /\ \A i \in DOMAIN connArgs :
          /\ connArgs[i].will = [topic |-> "events/disconnect",
                                 payload |-> "Last will and testament.",
                                 qos |-> 1, retained |-> TRUE]
          /\ connopts = <<connArgs[i]>>

ConnectedWithWill ==
    Len(connArgs) = 1 /\ pc = "done"

\* C7: publish is issued only after the connect token has been resolved.
PublishAfterConnectResolved ==
    (pc = "pub_call" \/ NumCalls("publish") > 0) => connTok \in {"ok", "failed"}

PublishIssuedConnected ==
    NumCalls("publish") = 1 /\ connTok = "ok" /\ pc = "pub_wait"

Termination == <>(pc = "done" /\ exitCode \in {0, 1})

TerminatedUnacknowledged ==
    pc = "done" /\ pubTok = "pending" /\ pubWaitRet = "timeout"

\* C10: when connect has succeeded and client.publish or the wait on its
\* token throws, main exits with code 1 without invoking disconnect;
\* disconnect is invoked only when the publish wait returned normally.
PublishFailureSkipsDisconnect ==
    /\ pubWaitRet = "threw" =>
          /\ connTok = "ok"
          /\ NumCalls("disconnect") = 0
          /\ discTok = "none"
          /\ pc \in {"catch", "done"}
          /\ pc = "done" => exitCode = 1
    /\ NumCalls("disconnect") > 0 => pubWaitRet \in {"acked", "timeout"}

PublishWaitThrewExit ==
    pc = "done" /\ connTok = "ok" /\ pubTok = "failed" /\ pubWaitRet = "threw"
       /\ exitCode = 1

====
